---- MODULE Spec2Model ----
(***************************************************************************)
(* Model of packages/gatsby/src/query/query-compiler.js: Runner.write      *)
(* (structural validation, fragment registry, global validation, fragment  *)
(* resolution, duplicate-root detection, document assembly) and compile()  *)
(* (diagnostic reporting and the error-overlay channel).                   *)
(***************************************************************************)
EXTENDS Integers, Sequences, FiniteSets, TLC

(***************************************************************************)
(* Bounds of the model.                                                    *)
(***************************************************************************)
\* files in the batch handed to the first compile() of a process
MaxFiles == 3
\* files in the batch of a later compile() (a rebuild after a file change)
MaxRebuildFiles == 1
\* compile() calls in one process
MaxRuns == 2
\* steps a functional replay of Runner.write may take (see RunWrite)
Fuel == 60

(***************************************************************************)
(* Strings.  A TLA+ string is atomic, so every name the program measures   *)
(* character by character is spelled out here.                             *)
(***************************************************************************)
Spell(s) ==
  CASE s = "UserFields" -> <<"U", "s", "e", "r", "F", "i", "e", "l", "d", "s">>
    [] s = "PostFields" -> <<"P", "o", "s", "t", "F", "i", "e", "l", "d", "s">>
    [] s = "UserField"  -> <<"U", "s", "e", "r", "F", "i", "e", "l", "d">>
    [] s = "All"        -> <<"A", "l", "l">>
    [] s = "X"          -> <<"X">>
    [] s = "S"          -> <<"S">>
    [] s = "CompletelyUnrelatedName" ->
         <<"C", "o", "m", "p", "l", "e", "t", "e", "l", "y", "U", "n", "r", "e",
           "l", "a", "t", "e", "d", "N", "a", "m", "e">>

Min3(a, b, c) ==
  IF a <= b THEN (IF a <= c THEN a ELSE c) ELSE (IF b <= c THEN b ELSE c)

\* One row of the edit-distance table: row is the part of the row for a[i]
\* built so far (columns 0..j-1), prev the complete row for a[i-1].
RECURSIVE LevRow(_, _, _, _, _)
LevRow(ch, b, prev, row, j) ==
  IF j > Len(b) THEN row
  ELSE LET cost == IF ch = b[j] THEN 0 ELSE 1
           v == Min3(prev[j + 1] + 1, row[j] + 1, prev[j] + cost)
       IN LevRow(ch, b, prev, Append(row, v), j + 1)

\* prev is the row of the a[1..prev[1]] already read: its column 0 holds the
\* number of characters read
RECURSIVE LevRows(_, _, _)
LevRows(a, b, prev) ==
  IF prev[1] = Len(a) THEN prev[Len(b) + 1]
  ELSE LevRows(a, b, LevRow(a[prev[1] + 1], b, prev, <<prev[1] + 1>>, 1))

\* the edit distance of two character sequences
EditDistance(a, b) == LevRows(a, b, [j \in 1..(Len(b) + 1) |-> j - 1])

\* the fragment names that occur in the modelled documents
Spellings ==
  {"UserFields", "PostFields", "UserField", "All", "X", "S",
   "CompletelyUnrelatedName"}

\* the distances of all pairs of names, computed once
Distances ==
  [s \in Spellings, t \in Spellings |-> EditDistance(Spell(s), Spell(t))]

\* levenshtein.get(s, t): the edit distance of two strings
Levenshtein(s, t) == Distances[s, t]

(***************************************************************************)
(* Array.prototype.sort with the comparator (a, b) => a.score > b.score.   *)
(* The comparator returns a boolean, which the engine reads as 1 or 0 and  *)
(* never as a negative number: it is not a consistent comparator, so the   *)
(* order of the result depends on the engine.  Both sorts of V8 are        *)
(* modelled: the insertion sort of V8 before 7.0 (arrays of at most ten    *)
(* elements) and the binary insertion sort of TimSort (V8 7.0 and later).  *)
(***************************************************************************)
SortEngines == {"insertion", "timsort"}

\* (a, b) => a.score > b.score, as the number the engine sees
CompareScore(a, b) == IF a.score > b.score THEN 1 ELSE 0

InsertAt(seq, k, x) ==
  SubSeq(seq, 1, k - 1) \o <<x>> \o SubSeq(seq, k, Len(seq))

\* the place of element in an already sorted prefix, scanning from its end and
\* shifting every tmp with comparefn(tmp, element) > 0
RECURSIVE LegacyPlace(_, _, _)
LegacyPlace(sorted, element, j) ==
  IF j >= 1 /\ CompareScore(sorted[j], element) > 0
  THEN LegacyPlace(sorted, element, j - 1)
  ELSE j + 1

RECURSIVE LegacyInsertionSort(_, _)
LegacyInsertionSort(arr, i) ==
  IF i > Len(arr) THEN arr
  ELSE LET sorted == SubSeq(arr, 1, i - 1)
           k == LegacyPlace(sorted, arr[i], i - 1)
       IN LegacyInsertionSort(
            InsertAt(sorted, k, arr[i]) \o SubSeq(arr, i + 1, Len(arr)), i + 1)

\* binary search of TimSort's insertion: order < 0 moves right, else left
RECURSIVE BinaryPlace(_, _, _, _)
BinaryPlace(arr, pivot, left, right) ==
  IF left >= right THEN left
  ELSE LET mid == left + ((right - left) \div 2)
       IN IF CompareScore(pivot, arr[mid]) < 0
          THEN BinaryPlace(arr, pivot, left, mid)
          ELSE BinaryPlace(arr, pivot, mid + 1, right)

RECURSIVE BinaryInsertionSort(_, _)
BinaryInsertionSort(arr, start) ==
  IF start > Len(arr) THEN arr
  ELSE LET k == BinaryPlace(arr, arr[start], 1, start)
       IN BinaryInsertionSort(
            InsertAt(SubSeq(arr, 1, start - 1), k, arr[start])
              \o SubSeq(arr, start + 1, Len(arr)), start + 1)

SortByScore(arr, engine) ==
  IF engine = "insertion" THEN LegacyInsertionSort(arr, 2)
  ELSE BinaryInsertionSort(arr, 2)

(***************************************************************************)
(* Definitions (the nodes of a parsed document).  kind, name, body and     *)
(* spreads are the parts graphql's print() renders; fmt is the layout of   *)
(* the source text, which print() normalises away; isStaticQuery is the    *)
(* flag the file parser attaches.  spreads lists the fragment spreads of   *)
(* the definition in the order visit() meets them.                         *)
(***************************************************************************)
Fragment(name, body, spreads, fmt) ==
  [kind |-> "FragmentDefinition", name |-> name, body |-> body,
   spreads |-> spreads, fmt |-> fmt, isStaticQuery |-> FALSE]

Operation(name, body, spreads, static) ==
  [kind |-> "OperationDefinition", name |-> name, body |-> body,
   spreads |-> spreads, fmt |-> 0, isStaticQuery |-> static]

\* print(definition): the canonical text
PrintDef(def) ==
  [kind |-> def.kind, name |-> def.name, body |-> def.body,
   spreads |-> def.spreads]

\* print(document): the canonical texts of its definitions, in order
PrintDocument(definitions) ==
  [i \in 1..Len(definitions) |-> PrintDef(definitions[i])]

\* definition.text: the source text as written in the file
SourceText(def) == [printed |-> PrintDef(def), fmt |-> def.fmt]

\* the fields the schema knows
SchemaFields == {"id", "title"}

fUserFields     == Fragment("UserFields", "id", <<>>, 0)
fUserFieldsWide == Fragment("UserFields", "id", <<>>, 1)
fUserFieldsAlt  == Fragment("UserFields", "title", <<>>, 0)
fPostFields     == Fragment("PostFields", "id", <<"UserFields">>, 0)
fPostFieldsTypo == Fragment("PostFields", "title", <<"UserField">>, 0)
fPostFieldsSelf == Fragment("PostFields", "id", <<"PostFields">>, 0)
fS              == Fragment("S", "id", <<>>, 0)
fAll            == Fragment("All", "id", <<"PostFields", "UserFields">>, 0)

qQ == Operation("Q", "id", <<"All", "PostFields">>, TRUE)
qR == Operation("R", "id", <<"UserField", "X">>, FALSE)
qS == Operation("S", "title", <<"CompletelyUnrelatedName">>, TRUE)
qT == Operation("T", "nope", <<"All">>, FALSE)

\* The documents a file may hold: its definitions and the number of
\* violations the structural rules find in it.
Doc(definitions, preErrors) ==
  [definitions |-> definitions, preErrors |-> preErrors]

Docs ==
  { Doc(<<fUserFields, qQ>>, 0),
    Doc(<<fPostFields, fUserFieldsWide>>, 0),
    Doc(<<fAll, fUserFieldsAlt>>, 0),
    Doc(<<qR, qS>>, 0),
    Doc(<<fPostFieldsTypo, qT>>, 0),
    Doc(<<fPostFieldsSelf>>, 0),
    Doc(<<qS>>, 0),
    Doc(<<fS>>, 0),
    Doc(<<fPostFields, qR>>, 2) }

Paths == <<"a.js", "b.js", "c.js", "d.js", "e.js">>

\* The batches of at most n files: the i-th file in merge order is Paths[i].
Batches(n) ==
  UNION { { [i \in 1..k |->
               [path |-> Paths[i], definitions |-> docs[i].definitions,
                preErrors |-> docs[i].preErrors]] : docs \in [1..k -> Docs] }
          : k \in 0..n }

(***************************************************************************)
(* Maps.  A Map whose iteration order the program uses (fragmentMap) is a  *)
(* sequence of entries in insertion order; the others are functions.       *)
(***************************************************************************)
EmptyMap == [x \in {} |-> {}]

MapSet(m, k, v) == [x \in DOMAIN m \cup {k} |-> IF x = k THEN v ELSE m[x]]

Range(seq) == {seq[i] : i \in 1..Len(seq)}

\* fragmentMap.has(name)
FragmentHas(fm, name) == \E i \in 1..Len(fm) : fm[i].name = name

\* fragmentMap.get(name)
FragmentGet(fm, name) == fm[CHOOSE i \in 1..Len(fm) : fm[i].name = name]

\* Set.prototype.add on a Set kept in insertion order
SetAdd(seq, x) == IF x \in Range(seq) THEN seq ELSE Append(seq, x)

RECURSIVE SetAddAll(_, _)
SetAddAll(seq, xs) ==
  IF xs = <<>> THEN seq ELSE SetAddAll(SetAdd(seq, Head(xs)), Tail(xs))

(***************************************************************************)
(* Diagnostics handed to addError.                                         *)
(***************************************************************************)
Diagnostic(id, filePath, location, name, detail) ==
  [id |-> id, filePath |-> filePath, location |-> location, name |-> name,
   detail |-> detail]

PreValidationRules == {"KnownTypeNames"}

MainValidationRules ==
  {"UniqueOperationNames", "FieldsOnCorrectType", "UniqueFragmentNames",
   "NoFragmentCycles"}

(***************************************************************************)
(* Runner.write.  Its locals are the fields of a record, and each step of  *)
(* the method is an operator from record to record, so that a whole call   *)
(* can also be replayed as a function of the batch (RunWrite).  The last   *)
(* four fields are history, read by no step: where each registered         *)
(* fragment and each collected operation came from, what each compiled     *)
(* operation resolved to, and which operation fills each file's slot.      *)
(***************************************************************************)
StartWrite(batch) ==
  [nodes |-> batch, fileIdx |-> 0,
   compiledNodes |-> EmptyMap, namePathMap |-> EmptyMap,
   nameDefMap |-> EmptyMap, operationDefinitions |-> <<>>,
   fragmentMap |-> <<>>, errors |-> <<>>, failed |-> {},
   usedFragmentsForFragment |-> EmptyMap, fragmentNames |-> <<>>,
   opIdx |-> 0, usedFragments |-> <<>>, stack |-> <<>>,
   missingFragment |-> FALSE,
   pc |-> IF batch = <<>> THEN "validate" ELSE "merge",
   fragmentOrigin |-> <<>>, operationOrigin |-> <<>>,
   resolved |-> EmptyMap, compiledFrom |-> EmptyMap]

\* validate(this.schema, doc, preValidationRules): the violations of one file
PreValidate(file) ==
  [k \in 1..file.preErrors |-> [rule |-> "KnownTypeNames", location |-> k]]

\* FilterDefinitions in which a definition of a registered name with another
\* text takes the place of the registered one
RECURSIVE FilterDefinitionsLastWins(_, _, _)
FilterDefinitionsLastWins(defs, path, acc) ==
  IF defs = <<>> THEN acc
  ELSE
    LET definition == Head(defs)
        fragmentName == definition.name
        keep == [acc EXCEPT !.kept = Append(@, definition)]
        entry == [name |-> fragmentName, def |-> definition,
                  text |-> PrintDef(definition)]
        next ==
          IF definition.kind = "FragmentDefinition"
          THEN IF FragmentHas(acc.fragmentMap, fragmentName)
               THEN IF PrintDef(definition)
                         = FragmentGet(acc.fragmentMap, fragmentName).text
                    THEN acc
                    ELSE [keep EXCEPT
                            !.fragmentMap =
                               [k \in 1..Len(@) |->
                                  IF @[k].name = fragmentName THEN entry ELSE @[k]]]
               ELSE [kept |-> Append(acc.kept, definition),
                     fragmentMap |-> Append(acc.fragmentMap, entry),
                     fragmentOrigin |-> Append(acc.fragmentOrigin, path)]
          ELSE keep
    IN FilterDefinitionsLastWins(Tail(defs), path, next)

\* doc.definitions.filter(...): acc holds the definitions kept so far and the
\* fragment registry
RECURSIVE FilterDefinitions(_, _, _)
FilterDefinitions(defs, path, acc) ==
  IF defs = <<>> THEN acc
  ELSE
    LET definition == Head(defs)
        fragmentName == definition.name
        keep == [acc EXCEPT !.kept = Append(@, definition)]
        next ==
          IF definition.kind = "FragmentDefinition"
          THEN IF FragmentHas(acc.fragmentMap, fragmentName)
               THEN IF PrintDef(definition)
                         = FragmentGet(acc.fragmentMap, fragmentName).text
                    THEN acc
                    ELSE keep
               ELSE [kept |-> Append(acc.kept, definition),
                     fragmentMap |->
                       Append(acc.fragmentMap,
                              [name |-> fragmentName, def |-> definition,
                               text |-> PrintDef(definition)]),
                     fragmentOrigin |-> Append(acc.fragmentOrigin, path)]
          ELSE keep
    IN FilterDefinitions(Tail(defs), path, next)

\* doc.definitions.forEach(...): the name indexes and the operation list
RECURSIVE IndexDefinitions(_, _, _)
IndexDefinitions(defs, filePath, s) ==
  IF defs = <<>> THEN s
  ELSE
    LET def == Head(defs)
        name == def.name
        isOp == def.kind = "OperationDefinition"
    IN IndexDefinitions(Tail(defs), filePath,
         [s EXCEPT !.namePathMap = MapSet(@, name, filePath),
                   !.nameDefMap = MapSet(@, name, def),
                   !.operationDefinitions =
                      IF isOp THEN Append(@, def) ELSE @,
                   !.operationOrigin =
                      IF isOp THEN Append(@, filePath) ELSE @])

\* MergeFile with the return of line 197 lost: a file that fails structural
\* validation is reported and skipped, and the loop goes on.
MergeFileSkipping(s) ==
  LET file == s.nodes[s.fileIdx + 1]
      filePath == file.path
      errors == PreValidate(file)
      after == IF s.fileIdx + 1 = Len(s.nodes) THEN "validate" ELSE "merge"
  IN IF Len(errors) > 0
     THEN [s EXCEPT
             !.errors = @ \o [k \in 1..Len(errors) |->
                                Diagnostic(errors[k].rule, filePath,
                                           errors[k].location, "", <<>>)],
             !.failed = @ \cup {filePath},
             !.fileIdx = @ + 1,
             !.pc = after]
     ELSE
       LET f == FilterDefinitions(file.definitions, filePath,
                                  [kept |-> <<>>,
                                   fragmentMap |-> s.fragmentMap,
                                   fragmentOrigin |-> s.fragmentOrigin])
           filtered ==
             [s EXCEPT !.nodes[s.fileIdx + 1].definitions = f.kept,
                       !.fragmentMap = f.fragmentMap,
                       !.fragmentOrigin = f.fragmentOrigin]
           indexed == IndexDefinitions(f.kept, filePath, filtered)
       IN [indexed EXCEPT !.fileIdx = @ + 1, !.pc = after]

\* One iteration of the loop over nodes.entries().
MergeFile(s) ==
  LET file == s.nodes[s.fileIdx + 1]
      filePath == file.path
      errors == PreValidate(file)
  IN IF Len(errors) > 0
     THEN [s EXCEPT
             !.errors = @ \o [k \in 1..Len(errors) |->
                                Diagnostic(errors[k].rule, filePath,
                                           errors[k].location, "", <<>>)],
             !.failed = @ \cup {filePath},
             !.pc = "returned"]
     ELSE
       LET f == FilterDefinitions(file.definitions, filePath,
                                  [kept |-> <<>>,
                                   fragmentMap |-> s.fragmentMap,
                                   fragmentOrigin |-> s.fragmentOrigin])
           filtered ==
             [s EXCEPT !.nodes[s.fileIdx + 1].definitions = f.kept,
                       !.fragmentMap = f.fragmentMap,
                       !.fragmentOrigin = f.fragmentOrigin]
           indexed == IndexDefinitions(f.kept, filePath, filtered)
       IN [indexed EXCEPT
             !.fileIdx = @ + 1,
             !.pc = IF s.fileIdx + 1 = Len(s.nodes) THEN "validate" ELSE "merge"]

(***************************************************************************)
(* validate(this.schema, globalDoc, mainValidationRules).  Of the sixteen  *)
(* rules, the four that the documents of the model can break are           *)
(* modelled; each error names its rule and the definition it is about.     *)
(***************************************************************************)
SpreadTargets(doc, name) ==
  UNION { Range(doc[i].spreads) :
            i \in { j \in 1..Len(doc) :
                      doc[j].kind = "FragmentDefinition" /\ doc[j].name = name } }

RECURSIVE ReachableFrom(_, _)
ReachableFrom(doc, names) ==
  LET more == names \cup UNION { SpreadTargets(doc, n) : n \in names }
  IN IF more = names THEN names ELSE ReachableFrom(doc, more)

\* the names a fragment spreads, directly or through other fragments
SpreadsOf(doc, name) == ReachableFrom(doc, SpreadTargets(doc, name))

RuleErrors(doc, i) ==
  LET def == doc[i]
      earlier(kind) ==
        \E j \in 1..(i - 1) : doc[j].kind = kind /\ doc[j].name = def.name
      firstOfCycle ==
        /\ def.name \in SpreadsOf(doc, def.name)
        /\ ~ \E j \in 1..(i - 1) :
               /\ doc[j].kind = "FragmentDefinition"
               /\ doc[j].name \in SpreadsOf(doc, def.name)
               /\ def.name \in SpreadsOf(doc, doc[j].name)
      error(rule) == <<[rule |-> rule, docName |-> def.name]>>
  IN (IF def.kind = "OperationDefinition" /\ earlier("OperationDefinition")
      THEN error("UniqueOperationNames") ELSE <<>>)
     \o (IF def.body \notin SchemaFields
         THEN error("FieldsOnCorrectType") ELSE <<>>)
     \o (IF def.kind = "FragmentDefinition" /\ earlier("FragmentDefinition")
         THEN error("UniqueFragmentNames") ELSE <<>>)
     \o (IF def.kind = "FragmentDefinition" /\ firstOfCycle
         THEN error("NoFragmentCycles") ELSE <<>>)

RECURSIVE ValidateFrom(_, _)
ValidateFrom(doc, i) ==
  IF i > Len(doc) THEN <<>> ELSE RuleErrors(doc, i) \o ValidateFrom(doc, i + 1)

Validate(doc) == ValidateFrom(doc, 1)

\* graphqlError(namePathMap, nameDefMap, error): the definition the error is
\* about and its message
GraphqlError(namePathMap, nameDefMap, error) ==
  [docName |-> error.docName, message |-> error.rule]

\* the document global validation runs on
GlobalDoc(s) ==
  s.operationDefinitions
    \o [i \in 1..Len(s.fragmentMap) |-> s.fragmentMap[i].def]

PcAfterOperation(s, done) ==
  IF done < Len(s.operationDefinitions) THEN "operation" ELSE "returned"

\* Global validation, and the set-up of the operation loop.
GlobalValidate(s) ==
  LET errors == Validate(GlobalDoc(s))
      parsed == [k \in 1..Len(errors) |->
                   GraphqlError(s.namePathMap, s.nameDefMap, errors[k])]
  IN [s EXCEPT
        !.errors = @ \o [k \in 1..Len(errors) |->
                           Diagnostic(parsed[k].message,
                                      s.namePathMap[parsed[k].docName], 0,
                                      parsed[k].docName, <<>>)],
        !.failed = @ \cup { s.namePathMap[parsed[k].docName] :
                              k \in 1..Len(errors) },
        !.usedFragmentsForFragment = EmptyMap,
        !.fragmentNames = [i \in 1..Len(s.fragmentMap) |-> s.fragmentMap[i].name],
        !.pc = PcAfterOperation(s, 0)]

(***************************************************************************)
(* The loop over operationDefinitions.  opIdx counts the finished          *)
(* iterations; the operation being handled is the next one.                *)
(***************************************************************************)
CurrentOperation(s) == s.operationDefinitions[s.opIdx + 1]

\* namePathMap.get(name) || ``
CurrentFilePath(s) ==
  LET name == CurrentOperation(s).name
  IN IF name \in DOMAIN s.namePathMap THEN s.namePathMap[name] ELSE ""

\* BeginOperation with the duplicate-root check after the resolution of the
\* operation: the rejected operation has reported its undefined spreads
BeginOperationResolvingFirst(s) ==
  LET name == CurrentOperation(s).name
      filePath == CurrentFilePath(s)
      undefined == SelectSeq(CurrentOperation(s).spreads,
                             LAMBDA n : ~FragmentHas(s.fragmentMap, n))
  IN IF filePath \in DOMAIN s.compiledNodes
     THEN LET otherNode == s.compiledNodes[filePath]
          IN [s EXCEPT
                !.errors =
                   (@ \o [k \in 1..Len(undefined) |->
                            Diagnostic("85908", filePath, 0, undefined[k], <<>>)])
                   \o <<Diagnostic("multipleRootQueries", filePath, 0,
                                   s.nameDefMap[name].name,
                                   <<s.nameDefMap[otherNode.name].name>>)>>,
                !.failed = @ \cup {filePath},
                !.opIdx = @ + 1,
                !.pc = PcAfterOperation(s, s.opIdx + 1)]
     ELSE [s EXCEPT !.usedFragments = <<>>,
                    !.stack = <<CurrentOperation(s)>>,
                    !.missingFragment = FALSE,
                    !.pc = "visit"]

\* The head of an iteration: the duplicate-root check, else the set-up of the
\* resolution of the operation.
BeginOperation(s) ==
  LET name == CurrentOperation(s).name
      filePath == CurrentFilePath(s)
  IN IF filePath \in DOMAIN s.compiledNodes
     THEN LET otherNode == s.compiledNodes[filePath]
          IN [s EXCEPT
                !.errors = Append(@, Diagnostic("multipleRootQueries", filePath, 0,
                                                s.nameDefMap[name].name,
                                                <<s.nameDefMap[otherNode.name].name>>)),
                !.failed = @ \cup {filePath},
                !.opIdx = @ + 1,
                !.pc = PcAfterOperation(s, s.opIdx + 1)]
     ELSE [s EXCEPT !.usedFragments = <<>>,
                    !.stack = <<CurrentOperation(s)>>,
                    !.missingFragment = FALSE,
                    !.pc = "visit"]

\* a suggestion is made only below this edit distance
SuggestionThreshold == 10

\* ClosestFragment with the bound included: score <= 10
ClosestFragmentAtMost(fragmentNames, name, engine) ==
  LET scored == [i \in 1..Len(fragmentNames) |->
                   [fragment |-> fragmentNames[i],
                    score |-> Levenshtein(name, fragmentNames[i])]]
      near(f) == f.score <= SuggestionThreshold
      sorted == SortByScore(SelectSeq(scored, near), engine)
  IN IF sorted = <<>> THEN <<>> ELSE <<sorted[1].fragment>>

\* The suggestion for an undefined fragment: <<>> when there is none.
ClosestFragment(fragmentNames, name, engine) ==
  LET scored == [i \in 1..Len(fragmentNames) |->
                   [fragment |-> fragmentNames[i],
                    score |-> Levenshtein(name, fragmentNames[i])]]
      near(f) == f.score < SuggestionThreshold
      sorted == SortByScore(SelectSeq(scored, near), engine)
  IN IF sorted = <<>> THEN <<>> ELSE <<sorted[1].fragment>>

\* VisitSpread that memoises a registered fragment when it first meets it,
\* before the fragments it spreads are known
VisitSpreadMemoEarly(s, name, engine) ==
  IF name \in DOMAIN s.usedFragmentsForFragment
  THEN [s EXCEPT !.usedFragments =
                    SetAdd(SetAddAll(@, s.usedFragmentsForFragment[name]), name)]
  ELSE IF FragmentHas(s.fragmentMap, name)
  THEN [s EXCEPT !.stack = Append(@, FragmentGet(s.fragmentMap, name).def),
                 !.usedFragments = SetAdd(@, name),
                 !.usedFragmentsForFragment = MapSet(@, name, <<>>)]
  ELSE [s EXCEPT
          !.failed = @ \cup {CurrentFilePath(s)},
          !.errors = Append(@, Diagnostic("85908", CurrentFilePath(s), 0, name,
                                          ClosestFragment(s.fragmentNames, name,
                                                          engine)))]

\* VisitSpread that notes a registered fragment without pushing its body
VisitSpreadShallow(s, name, engine) ==
  IF name \in DOMAIN s.usedFragmentsForFragment
  THEN [s EXCEPT !.usedFragments =
                    SetAdd(SetAddAll(@, s.usedFragmentsForFragment[name]), name)]
  ELSE IF FragmentHas(s.fragmentMap, name)
  THEN [s EXCEPT !.usedFragments = SetAdd(@, name)]
  ELSE [s EXCEPT
          !.failed = @ \cup {CurrentFilePath(s)},
          !.errors = Append(@, Diagnostic("85908", CurrentFilePath(s), 0, name,
                                          ClosestFragment(s.fragmentNames, name,
                                                          engine)))]

\* VisitSpread that registers an empty stand-in for an undefined fragment
VisitSpreadRegistering(s, name, engine) ==
  IF name \in DOMAIN s.usedFragmentsForFragment
  THEN [s EXCEPT !.usedFragments =
                    SetAdd(SetAddAll(@, s.usedFragmentsForFragment[name]), name)]
  ELSE IF FragmentHas(s.fragmentMap, name)
  THEN [s EXCEPT !.stack = Append(@, FragmentGet(s.fragmentMap, name).def),
                 !.usedFragments = SetAdd(@, name)]
  ELSE [s EXCEPT
          !.failed = @ \cup {CurrentFilePath(s)},
          !.fragmentMap =
             Append(@, [name |-> name, def |-> Fragment(name, "id", <<>>, 0),
                        text |-> PrintDef(Fragment(name, "id", <<>>, 0))]),
          !.errors = Append(@, Diagnostic("85908", CurrentFilePath(s), 0, name,
                                          ClosestFragment(s.fragmentNames, name,
                                                          engine)))]

\* The visitor of one fragment spread.
VisitSpread(s, name, engine) ==
  IF name \in DOMAIN s.usedFragmentsForFragment
  THEN [s EXCEPT !.usedFragments =
                    SetAdd(SetAddAll(@, s.usedFragmentsForFragment[name]), name)]
  ELSE IF FragmentHas(s.fragmentMap, name)
  THEN [s EXCEPT !.stack = Append(@, FragmentGet(s.fragmentMap, name).def),
                 !.usedFragments = SetAdd(@, name)]
  ELSE [s EXCEPT
          !.failed = @ \cup {CurrentFilePath(s)},
          !.errors = Append(@, Diagnostic("85908", CurrentFilePath(s), 0, name,
                                          ClosestFragment(s.fragmentNames, name,
                                                          engine)))]

RECURSIVE VisitSpreads(_, _, _)
VisitSpreads(s, spreads, engine) ==
  IF spreads = <<>> THEN s
  ELSE VisitSpreads(VisitSpread(s, Head(spreads), engine), Tail(spreads), engine)

\* One iteration of while (stack.length > 0): pop a definition and visit it.
VisitDefinition(s, engine) ==
  LET def == s.stack[Len(s.stack)]
      popped == [s EXCEPT !.stack = SubSeq(@, 1, Len(@) - 1)]
      visited == VisitSpreads(popped, def.spreads, engine)
  IN [visited EXCEPT !.pc = IF visited.stack = <<>> THEN "assemble" ELSE "visit"]

(***************************************************************************)
(* The id of a static query: `sq--` + _.kebabCase(path.relative(           *)
(* program.directory, filePath)).  A path is the sequence of its segments; *)
(* the files of the model are in the src directory of the site.            *)
(***************************************************************************)
\* store.getState().program.directory
ProgramDirectory == <<"site">>

\* the segments of the absolute path of a file of the model
Segments(filePath) == <<"site", "src", filePath>>

\* path.relative(from, to)
RECURSIVE Relative(_, _)
Relative(from, to) ==
  IF from # <<>> /\ to # <<>> /\ Head(from) = Head(to)
  THEN Relative(Tail(from), Tail(to))
  ELSE [i \in 1..Len(from) |-> ".."] \o to

\* the words _.kebabCase finds in one path segment
Words(segment) ==
  CASE segment = "a.js" -> <<"a", "js">>
    [] segment = "b.js" -> <<"b", "js">>
    [] segment = "c.js" -> <<"c", "js">>
    [] segment = "d.js" -> <<"d", "js">>
    [] segment = "e.js" -> <<"e", "js">>
    [] segment = ".."   -> <<>>
    [] OTHER            -> <<segment>>

\* _.kebabCase of a path: its words, which the result joins with `-`
RECURSIVE KebabCase(_)
KebabCase(segments) ==
  IF segments = <<>> THEN <<>>
  ELSE Words(Head(segments)) \o KebabCase(Tail(segments))

\* a query that is no static query has no id
NoId == <<>>

StaticQueryId(filePath) ==
  <<"sq--">> \o KebabCase(Relative(ProgramDirectory, Segments(filePath)))

\* The rest of an iteration: the document, the query and its slot.
CompileOperation(s) ==
  LET operation == CurrentOperation(s)
      name == operation.name
      filePath == CurrentFilePath(s)
      document ==
        [i \in 1..Len(s.usedFragments) |->
           FragmentGet(s.fragmentMap, s.usedFragments[i]).def] \o <<operation>>
      query == [name |-> name,
                text |-> PrintDocument(document),
                originalText |-> SourceText(s.nameDefMap[name]),
                path |-> filePath,
                isStaticQuery |-> s.nameDefMap[name].isStaticQuery,
                id |-> IF s.nameDefMap[name].isStaticQuery
                       THEN StaticQueryId(filePath) ELSE NoId]
      next == [s EXCEPT !.opIdx = @ + 1, !.pc = PcAfterOperation(s, s.opIdx + 1)]
  IN IF s.missingFragment THEN next
     ELSE [next EXCEPT
             !.compiledNodes = MapSet(@, filePath, query),
             !.resolved = MapSet(@, s.opIdx + 1, s.usedFragments),
             !.compiledFrom = MapSet(@, filePath, s.opIdx + 1)]

\* Runner.write as a function of its state: the steps, until it returns or the
\* fuel runs out.
RECURSIVE RunWrite(_, _, _)
RunWrite(s, engine, fuel) ==
  IF s.pc = "returned" \/ fuel = 0 THEN s
  ELSE RunWrite(CASE s.pc = "merge" -> MergeFile(s)
                  [] s.pc = "validate" -> GlobalValidate(s)
                  [] s.pc = "operation" -> BeginOperation(s)
                  [] s.pc = "visit" -> VisitDefinition(s, engine)
                  [] s.pc = "assemble" -> CompileOperation(s),
                engine, fuel - 1)

(***************************************************************************)
(* The process: the variables of the running Runner.write, the errors      *)
(* compile() collects, and what outlives a call of compile().              *)
(***************************************************************************)
VARIABLES
  nodes, fileIdx, compiledNodes, namePathMap, nameDefMap, operationDefinitions,
  fragmentMap, errors, failed, usedFragmentsForFragment, fragmentNames, opIdx,
  usedFragments, stack, missingFragment, pc,
  fragmentOrigin, operationOrigin, resolved, compiledFrom,
  input,      \* the batch as compileAll handed it to write
  develop,    \* process.env.gatsby_executing_command === `develop`
  channel,    \* what websocketManager last emitted under overlayErrorID
  reported,   \* activity.panicOnBuild was called in this run
  queries,    \* what this call of compile() returned (empty until it does)
  runs        \* compile() calls so far

writeVars ==
  <<nodes, fileIdx, compiledNodes, namePathMap, nameDefMap, operationDefinitions,
    fragmentMap, errors, failed, usedFragmentsForFragment, fragmentNames, opIdx,
    usedFragments, stack, missingFragment, pc,
    fragmentOrigin, operationOrigin, resolved, compiledFrom>>

vars == <<writeVars, input, develop, channel, reported, queries, runs>>

\* the state of Runner.write as a record
Cur ==
  [nodes |-> nodes, fileIdx |-> fileIdx, compiledNodes |-> compiledNodes,
   namePathMap |-> namePathMap, nameDefMap |-> nameDefMap,
   operationDefinitions |-> operationDefinitions, fragmentMap |-> fragmentMap,
   errors |-> errors, failed |-> failed,
   usedFragmentsForFragment |-> usedFragmentsForFragment,
   fragmentNames |-> fragmentNames, opIdx |-> opIdx,
   usedFragments |-> usedFragments, stack |-> stack,
   missingFragment |-> missingFragment, pc |-> pc,
   fragmentOrigin |-> fragmentOrigin, operationOrigin |-> operationOrigin,
   resolved |-> resolved, compiledFrom |-> compiledFrom]

\* the variables of Runner.write after a step
Becomes(s) ==
  \E after \in {s} :
    /\ nodes' = after.nodes
    /\ fileIdx' = after.fileIdx
    /\ compiledNodes' = after.compiledNodes
    /\ namePathMap' = after.namePathMap
    /\ nameDefMap' = after.nameDefMap
    /\ operationDefinitions' = after.operationDefinitions
    /\ fragmentMap' = after.fragmentMap
    /\ errors' = after.errors
    /\ failed' = after.failed
    /\ usedFragmentsForFragment' = after.usedFragmentsForFragment
    /\ fragmentNames' = after.fragmentNames
    /\ opIdx' = after.opIdx
    /\ usedFragments' = after.usedFragments
    /\ stack' = after.stack
    /\ missingFragment' = after.missingFragment
    /\ pc' = after.pc
    /\ fragmentOrigin' = after.fragmentOrigin
    /\ operationOrigin' = after.operationOrigin
    /\ resolved' = after.resolved
    /\ compiledFrom' = after.compiledFrom

\* the variables of Runner.write at its start
StartsAs(s) ==
  /\ nodes = s.nodes
  /\ fileIdx = s.fileIdx
  /\ compiledNodes = s.compiledNodes
  /\ namePathMap = s.namePathMap
  /\ nameDefMap = s.nameDefMap
  /\ operationDefinitions = s.operationDefinitions
  /\ fragmentMap = s.fragmentMap
  /\ errors = s.errors
  /\ failed = s.failed
  /\ usedFragmentsForFragment = s.usedFragmentsForFragment
  /\ fragmentNames = s.fragmentNames
  /\ opIdx = s.opIdx
  /\ usedFragments = s.usedFragments
  /\ stack = s.stack
  /\ missingFragment = s.missingFragment
  /\ pc = s.pc
  /\ fragmentOrigin = s.fragmentOrigin
  /\ operationOrigin = s.operationOrigin
  /\ resolved = s.resolved
  /\ compiledFrom = s.compiledFrom

overlayErrorID == "graphql-compiler"

\* nothing emitted yet
Silent == [id |-> overlayErrorID, emitted |-> FALSE, payload |-> <<>>]

\* websocketManager.emitError(id, message); a null message is the payload <<>>
EmitError(id, message) == [id |-> id, emitted |-> TRUE, payload |-> message]

Init ==
  /\ \E batch \in Batches(MaxFiles) : input = batch /\ StartsAs(StartWrite(batch))
  /\ develop \in BOOLEAN
  /\ channel = Silent
  /\ reported = FALSE
  /\ queries = EmptyMap
  /\ runs = 1

(***************************************************************************)
(* The steps of Runner.write as actions.                                   *)
(***************************************************************************)
WriteMerge ==
  /\ pc = "merge"
  /\ Becomes(MergeFile(Cur))
  /\ UNCHANGED <<input, develop, channel, reported, queries, runs>>

WriteValidate ==
  /\ pc = "validate"
  /\ Becomes(GlobalValidate(Cur))
  /\ UNCHANGED <<input, develop, channel, reported, queries, runs>>

WriteBegin ==
  /\ pc = "operation"
  /\ Becomes(BeginOperation(Cur))
  /\ UNCHANGED <<input, develop, channel, reported, queries, runs>>

\* One iteration of while (stack.length > 0).  When the definition popped
\* spreads itself, the iteration pushes it back and leaves every local as it
\* was: the loop spins, which a behaviour shows as stuttering at pc = "visit".
WriteVisit ==
  /\ pc = "visit"
  /\ \E engine \in SortEngines : Becomes(VisitDefinition(Cur, engine))
  /\ UNCHANGED <<input, develop, channel, reported, queries, runs>>

WriteCompile ==
  /\ pc = "assemble"
  /\ Becomes(CompileOperation(Cur))
  /\ UNCHANGED <<input, develop, channel, reported, queries, runs>>

(***************************************************************************)
(* compile(): what it does with the diagnostics once compileAll returned.  *)
(***************************************************************************)
\* Publish without the clearing emit of a run that collected nothing
PublishNoClear(errs, dev, ch) ==
  IF Len(errs) # 0
  THEN [reported |-> TRUE,
        channel |-> IF dev THEN EmitError(overlayErrorID, errs) ELSE ch]
  ELSE [reported |-> FALSE, channel |-> ch]

\* the report and the overlay channel after a run that collected errs
Publish(errs, dev, ch) ==
  IF Len(errs) # 0
  THEN [reported |-> TRUE,
        channel |-> IF dev THEN EmitError(overlayErrorID, errs) ELSE ch]
  ELSE [reported |-> FALSE,
        channel |-> IF dev THEN EmitError(overlayErrorID, <<>>) ELSE ch]

CompileFinish ==
  /\ pc = "returned"
  /\ pc' = "done"
  /\ reported' = Publish(errors, develop, channel).reported
  /\ channel' = Publish(errors, develop, channel).channel
  /\ queries' = compiledNodes
  /\ UNCHANGED <<nodes, fileIdx, compiledNodes, namePathMap, nameDefMap,
                 operationDefinitions, fragmentMap, errors, failed,
                 usedFragmentsForFragment, fragmentNames, opIdx, usedFragments,
                 stack, missingFragment, fragmentOrigin, operationOrigin,
                 resolved, compiledFrom, input, develop, runs>>

\* compile() is called again, on the batch a rebuild parses
CompileAgain ==
  /\ pc = "done"
  /\ runs < MaxRuns
  /\ \E batch \in Batches(MaxRebuildFiles) :
       input' = batch /\ Becomes(StartWrite(batch))
  /\ runs' = runs + 1
  /\ reported' = FALSE
  /\ queries' = EmptyMap
  /\ UNCHANGED <<develop, channel>>

Next ==
  \/ WriteMerge
  \/ WriteValidate
  \/ WriteBegin
  \/ WriteVisit
  \/ WriteCompile
  \/ CompileFinish
  \/ CompileAgain

Spec == Init /\ [][Next]_vars

(***************************************************************************)
(* Vocabulary of the properties.                                           *)
(***************************************************************************)
\* the run has returned from Runner.write
Returned == pc \in {"returned", "done"}

\* file k of the batch is the first that fails structural validation
FirstBroken(k) ==
  /\ input[k].preErrors > 0
  /\ \A j \in 1..(k - 1) : input[j].preErrors = 0

\* every file of the batch passes structural validation
StructurallyValid == \A k \in 1..Len(input) : input[k].preErrors = 0

PathsBefore(k) == {input[j].path : j \in 1..(k - 1)}

\* the fragment definitions of the batch, as parsed
InputFragments ==
  UNION { {input[k].definitions[i] : i \in 1..Len(input[k].definitions)} :
            k \in 1..Len(input) }

DiagnosticsWith(id) == {e \in Range(errors) : e.id = id}

(***************************************************************************)
(* C1.  Fail-fast on structural validation: when file k is the first file  *)
(* of the batch that fails structural validation, Runner.write returns at  *)
(* file k with an empty compiled-query map; the files after it are never   *)
(* validated or merged (no registry, name-index or operation-list entry    *)
(* and no diagnostic comes from them), and global validation, resolution   *)
(* and compilation are never entered.                                      *)
(***************************************************************************)
C1_FailFast ==
  \A k \in 1..Len(input) :
    FirstBroken(k) =>
      /\ fileIdx < k
      /\ pc \in {"merge", "returned", "done"}
      /\ compiledNodes = EmptyMap
      /\ Range(fragmentOrigin) \cup Range(operationOrigin)
           \cup {namePathMap[n] : n \in DOMAIN namePathMap} \subseteq PathsBefore(k)
      /\ \A j \in k..Len(input) : nodes[j] = input[j]
      /\ \A e \in Range(errors) :
           e.id \in PreValidationRules /\ e.filePath = input[k].path
      /\ fragmentNames = <<>> /\ opIdx = 0 /\ stack = <<>>
      /\ Returned => fileIdx = k - 1 /\ Len(errors) = input[k].preErrors
      /\ pc = "done" => queries = EmptyMap

\* a finished run that failed at its second file, with a fragment of the first
\* file registered and a third file pending
C1_Witness ==
  /\ pc = "done"
  /\ Len(input) = 3
  /\ FirstBroken(2)
  /\ fragmentMap # <<>>
  /\ input[3].definitions # <<>>

(***************************************************************************)
(* C2.  For every two fragment definitions of the batch with the same name *)
(* and differing canonical text, a run that passes structural validation   *)
(* ends with a unique-fragment-names diagnostic naming that fragment.      *)
(***************************************************************************)
C2_ConflictReported ==
  (Returned /\ StructurallyValid) =>
    \A f, g \in InputFragments :
      ( /\ f.kind = "FragmentDefinition" /\ g.kind = "FragmentDefinition"
        /\ f.name = g.name
        /\ PrintDef(f) # PrintDef(g) )
      => \E e \in DiagnosticsWith("UniqueFragmentNames") : e.name = f.name

\* the places in the operation list of the operations that file path defines
OperationsOf(path) ==
  {i \in 1..Len(operationOrigin) : operationOrigin[i] = path}

FirstOperationOf(path) ==
  CHOOSE i \in OperationsOf(path) : \A j \in OperationsOf(path) : i <= j

\* the number of multiple-root-queries diagnostics about file path
MultipleRootCount(path) ==
  Cardinality({i \in 1..Len(errors) :
                 errors[i].id = "multipleRootQueries" /\ errors[i].filePath = path})

(***************************************************************************)
(* C3.  If a file contains two operations, a run that passes structural    *)
(* validation ends with exactly one multiple-root-queries diagnostic for   *)
(* that file, and the file's entry in the compiled-query map, if any, is   *)
(* the first operation of the file in merge order.                         *)
(***************************************************************************)
C3_FirstRootWins ==
  (Returned /\ StructurallyValid) =>
    \A k \in 1..Len(input) :
      Cardinality(OperationsOf(input[k].path)) = 2 =>
        /\ MultipleRootCount(input[k].path) = 1
        /\ input[k].path \in DOMAIN compiledNodes =>
             compiledFrom[input[k].path] = FirstOperationOf(input[k].path)

\* the batch with the files at places i and j of the merge order exchanged
Swap(batch, i, j) ==
  [k \in 1..Len(batch) |->
     IF k = i THEN batch[j] ELSE IF k = j THEN batch[i] ELSE batch[k]]

\* both files define a fragment of the same name and canonical text
ShareFragment(f, g) ==
  \E a \in 1..Len(f.definitions), b \in 1..Len(g.definitions) :
    /\ f.definitions[a].kind = "FragmentDefinition"
    /\ g.definitions[b].kind = "FragmentDefinition"
    /\ f.definitions[a].name = g.definitions[b].name
    /\ PrintDef(f.definitions[a]) = PrintDef(g.definitions[b])

\* the compiled output: per file key, the operation name and the printed text
Output(compiled) ==
  [p \in DOMAIN compiled |->
     [name |-> compiled[p].name, text |-> compiled[p].text]]

(***************************************************************************)
(* C4.  For two files of the batch that each define a fragment of the same *)
(* name and the same canonical text, compiling the batch with the two      *)
(* files exchanged in the merge order gives the same compiled output: the  *)
(* same file keys, and per key the same operation name and printed text.   *)
(***************************************************************************)
C4_SwapSameOutput ==
  pc = "done" =>
    \A i, j \in 1..Len(input) :
      (i < j /\ ShareFragment(input[i], input[j])) =>
        LET swapped == RunWrite(StartWrite(Swap(input, i, j)), "timsort", Fuel)
        IN swapped.pc = "returned" =>
             Output(swapped.compiledNodes) = Output(queries)

\* the file key under which operation i was compiled
SlotOf(i) == CHOOSE p \in DOMAIN compiledFrom : compiledFrom[p] = i

\* Runner.write from the end of global validation, with operation i as the
\* only operation of the list and nothing resolved or cached before it
ResolvedAlone(i) ==
  RunWrite([Cur EXCEPT !.operationDefinitions = <<operationDefinitions[i]>>,
                       !.operationOrigin = <<operationOrigin[i]>>,
                       !.opIdx = 0,
                       !.compiledNodes = EmptyMap,
                       !.usedFragmentsForFragment = EmptyMap,
                       !.resolved = EmptyMap,
                       !.compiledFrom = EmptyMap,
                       !.usedFragments = <<>>,
                       !.stack = <<>>,
                       !.pc = "operation"],
           "timsort", Fuel)

(***************************************************************************)
(* C5.  Resolution does not depend on what was resolved before: the        *)
(* resolved fragment set and the printed text of every compiled operation  *)
(* equal those the operation gets when it is resolved first, with an empty *)
(* DependencyCache, against the same registry.                             *)
(***************************************************************************)
C5_CacheIndependent ==
  \A i \in DOMAIN resolved :
    LET alone == ResolvedAlone(i)
    IN /\ alone.pc = "returned"
       /\ alone.resolved[1] = resolved[i]
       /\ alone.compiledNodes[SlotOf(i)].text = compiledNodes[SlotOf(i)].text

\* a later operation compiled with a closure of three fragments, one of them
\* spreading another, all of them already resolved for an earlier operation
C5_Witness ==
  \E i, j \in DOMAIN resolved :
    /\ i < j
    /\ Len(resolved[j]) = 3
    /\ Range(resolved[j]) \subseteq Range(resolved[i])
    /\ \E a, b \in Range(resolved[j]) :
         a # b /\ b \in Range(FragmentGet(fragmentMap, a).def.spreads)

\* the registered fragments reachable from the spreads of operation op
RegistryClosure(op) ==
  LET registry == [k \in 1..Len(fragmentMap) |-> fragmentMap[k].def]
  IN {n \in ReachableFrom(registry, Range(op.spreads)) :
        FragmentHas(fragmentMap, n)}

(***************************************************************************)
(* C6.  The document of every compiled operation is exactly the registered *)
(* fragments in the transitive closure of the spreads of the operation,    *)
(* each once and as registered, followed by the operation as the last      *)
(* definition.                                                             *)
(***************************************************************************)
C6_MinimalDocument ==
  \A p \in DOMAIN compiledNodes :
    LET op == operationDefinitions[compiledFrom[p]]
        text == compiledNodes[p].text
        n == Len(text)
    IN /\ n >= 1
       /\ text[n] = PrintDef(op)
       /\ {text[k].name : k \in 1..(n - 1)} = RegistryClosure(op)
       /\ n - 1 = Cardinality(RegistryClosure(op))
       /\ \A k \in 1..(n - 1) :
            text[k] = FragmentGet(fragmentMap, text[k].name).text

\* a compiled operation whose closure holds a fragment it does not spread itself
C6_Witness ==
  \E p \in DOMAIN compiledNodes :
    LET op == operationDefinitions[compiledFrom[p]]
    IN /\ Len(compiledNodes[p].text) = 4
       /\ RegistryClosure(op) \ Range(op.spreads) # {}

(***************************************************************************)
(* C7.  A suggestion carried by an undefined-fragment diagnostic is a      *)
(* registered fragment name whose edit distance to the missing name is     *)
(* minimal among all registered fragment names, whatever the order in      *)
(* which the names were registered.                                        *)
(***************************************************************************)
C7_SuggestionIsNearest ==
  \A e \in DiagnosticsWith("85908") :
    e.detail # <<>> =>
      /\ e.detail[1] \in Range(fragmentNames)
      /\ \A f \in Range(fragmentNames) :
           Levenshtein(e.name, e.detail[1]) <= Levenshtein(e.name, f)

\* the spreads of the definition about to be visited that resolve to nothing
UnresolvedSpreads ==
  LET unresolved(n) ==
        /\ n \notin DOMAIN usedFragmentsForFragment
        /\ ~FragmentHas(fragmentMap, n)
  IN SelectSeq(stack[Len(stack)].spreads, unresolved)

(***************************************************************************)
(* C8.  Visiting a definition emits one undefined-fragment diagnostic per  *)
(* unresolved spread, in order, each with the missing name; it carries a   *)
(* suggestion, a registered name, if and only if some registered fragment  *)
(* name is at edit distance below 10 from the missing name (so none when   *)
(* the registry is empty or every name is at distance 10 or more).         *)
(***************************************************************************)
C8_SuggestionIffNear ==
  [][pc = "visit" =>
       LET missing == UnresolvedSpreads
           new == SubSeq(errors', Len(errors) + 1, Len(errors'))
       IN /\ Len(new) = Len(missing)
          /\ \A m \in 1..Len(missing) :
               /\ new[m].id = "85908"
               /\ new[m].name = missing[m]
               /\ new[m].detail # <<>> <=>
                    \E f \in Range(fragmentNames) :
                      Levenshtein(missing[m], f) < 10
               /\ new[m].detail # <<>> =>
                    new[m].detail[1] \in Range(fragmentNames)]_vars

\* diagnostics of one run with and without a suggestion, the registry not empty
C8_Witness ==
  /\ fragmentNames # <<>>
  /\ \E e, f \in DiagnosticsWith("85908") : e.detail = <<>> /\ f.detail # <<>>

(***************************************************************************)
(* C9.  Ordinary diagnostics never abort the batch: once every file has    *)
(* passed structural validation, the run goes on to visit every operation  *)
(* of the operation list, and every operation that is not rejected as a    *)
(* duplicate root is resolved and compiled.                                *)
(***************************************************************************)
C9_EveryOperationVisited ==
  (pc = "validate") ~>
    ( /\ pc = "returned"
      /\ opIdx = Len(operationDefinitions)
      /\ Cardinality(DOMAIN resolved) + Len(SelectSeq(errors, LAMBDA e : e.id = "multipleRootQueries"))
           = Len(operationDefinitions) )

\* Runner.write is straight-line code on one thread: a step that can be taken
\* is taken.
FairSpec == Spec /\ WF_vars(Next)

(***************************************************************************)
(* C10.  After every run of compile(): a run that produced a diagnostic    *)
(* is reported as failed and, in development mode, the channel             *)
(* 'graphql-compiler' holds all its diagnostics; a run that produced none  *)
(* leaves, in development mode, a null publish on the channel; outside     *)
(* development mode nothing is ever published.                             *)
(***************************************************************************)
C10_ChannelFollowsLastRun ==
  /\ ~develop => channel = Silent
  /\ channel.id = "graphql-compiler"
  /\ pc = "done" =>
       /\ reported <=> errors # <<>>
       /\ develop => channel = [id |-> "graphql-compiler", emitted |-> TRUE,
                                payload |-> errors]

\* a second run without diagnostics about to clear the errors of the first
C10_Witness ==
  /\ develop
  /\ runs = 2
  /\ pc = "returned"
  /\ errors = <<>>
  /\ channel.payload # <<>>

(***************************************************************************)
(* C11.  Input documents are read-only: when Runner.write has returned,    *)
(* normally or by the fail-fast return, every document of the batch has    *)
(* the ordered sequence of definitions it had when the run started.        *)
(***************************************************************************)
C11_InputUntouched ==
  Returned =>
    \A k \in 1..Len(input) : nodes[k].definitions = input[k].definitions

\* the operation that was compiled into the slot of file path p
CompiledOperation(p) == operationDefinitions[compiledFrom[p]]

\* Runner.write on another batch
OtherRun(batch) == RunWrite(StartWrite(batch), "timsort", Fuel)

(***************************************************************************)
(* C12.  A compiled query carries an id if and only if its operation is    *)
(* flagged isStaticQuery, and two runs that compile a static query at the  *)
(* same path relative to the project root (with other files, another merge *)
(* order or other operations) give it the same id.                         *)
(***************************************************************************)
C12_StaticIdStable ==
  /\ \A p \in DOMAIN compiledNodes :
       compiledNodes[p].id # NoId <=> CompiledOperation(p).isStaticQuery
  /\ pc = "done" =>
       \A batch \in Batches(MaxRebuildFiles)
                      \cup {Swap(input, 1, j) : j \in 1..Len(input)} :
         LET other == OtherRun(batch).compiledNodes
         IN \A p \in DOMAIN other \cap DOMAIN queries :
              (other[p].id # NoId /\ queries[p].id # NoId)
                => other[p].id = queries[p].id

\* the operations whose iteration ended at the duplicate-root check
RejectedRoots ==
  {i \in 1..opIdx : i \notin DOMAIN resolved}

\* the file an operation of the list is looked up under
FiledUnder(i) == namePathMap[operationDefinitions[i].name]

\* the spread names of operation i that the registry does not hold
UndefinedSpreadsOf(i) ==
  {n \in Range(operationDefinitions[i].spreads) : ~FragmentHas(fragmentMap, n)}

(***************************************************************************)
(* C13 (as stated).  An operation rejected as a duplicate root has already *)
(* had its spreads resolved: when the run has returned, every unresolved   *)
(* spread of a rejected operation has its undefined-fragment diagnostic,   *)
(* next to the multiple-root-queries diagnostic of the operation.          *)
(***************************************************************************)
C13_ResolvedBeforeRejected ==
  Returned =>
    \A i \in RejectedRoots :
      /\ \E e \in DiagnosticsWith("multipleRootQueries") :
           e.filePath = FiledUnder(i) /\ e.name = operationDefinitions[i].name
      /\ \A n \in UndefinedSpreadsOf(i) :
           \E e \in DiagnosticsWith("85908") :
             e.filePath = FiledUnder(i) /\ e.name = n

(***************************************************************************)
(* C13 (amended).  Duplicate-root detection comes before the resolution of *)
(* the operation: the step that rejects an operation whose file already    *)
(* has a compiled query adds the multiple-root-queries diagnostic naming   *)
(* both operations and nothing else, resolves no spread of the operation,  *)
(* compiles nothing and moves on to the next operation.                    *)
(***************************************************************************)
C13_RejectedBeforeResolved ==
  [][(pc = "operation" /\ CurrentFilePath(Cur) \in DOMAIN compiledNodes) =>
       /\ errors' =
            Append(errors,
                   Diagnostic("multipleRootQueries", CurrentFilePath(Cur), 0,
                              CurrentOperation(Cur).name,
                              <<compiledNodes[CurrentFilePath(Cur)].name>>))
       /\ opIdx' = opIdx + 1
       /\ pc' \in {"operation", "returned"}
       /\ UNCHANGED <<compiledNodes, resolved, usedFragments, stack>>]_vars

\* a rejected operation with an unresolved spread that no diagnostic names
C13_Witness ==
  \E i \in RejectedRoots :
    \E n \in UndefinedSpreadsOf(i) :
      /\ \E e \in DiagnosticsWith("multipleRootQueries") :
           e.name = operationDefinitions[i].name
      /\ ~ \E e \in DiagnosticsWith("85908") : e.name = n

\* the registered fragments as a document
Registry == [k \in 1..Len(fragmentMap) |-> fragmentMap[k].def]

(***************************************************************************)
(* C14.  The DependencyCache is populated during resolution: once an       *)
(* operation whose closure contains the registered fragment F has been     *)
(* resolved, the cache holds an entry for F, equal to the set of the       *)
(* registered fragment names transitively reachable from F.                *)
(***************************************************************************)
C14_CachePopulated ==
  \A i \in DOMAIN resolved :
    \A F \in Range(resolved[i]) :
      /\ F \in DOMAIN usedFragmentsForFragment
      /\ Range(usedFragmentsForFragment[F])
           = {n \in SpreadsOf(Registry, F) : FragmentHas(fragmentMap, n)}

\* the places <<file, position>> of the fragment definitions named name in the
\* files merged so far
DefinitionsOf(name) ==
  UNION { { <<k, i>> : i \in { j \in 1..Len(input[k].definitions) :
                               /\ input[k].definitions[j].kind = "FragmentDefinition"
                               /\ input[k].definitions[j].name = name } }
          : k \in 1..fileIdx }

\* place a comes before place b in merge order
Before(a, b) == a[1] < b[1] \/ (a[1] = b[1] /\ a[2] <= b[2])

FirstDefinitionOf(name) ==
  CHOOSE a \in DefinitionsOf(name) : \A b \in DefinitionsOf(name) : Before(a, b)

InputAt(a) == input[a[1]].definitions[a[2]]

\* a definition the filter drops: a fragment that is not the first of its name
\* and prints like the first
Dropped(k, i) ==
  LET def == input[k].definitions[i]
  IN /\ def.kind = "FragmentDefinition"
     /\ FirstDefinitionOf(def.name) # <<k, i>>
     /\ PrintDef(InputAt(FirstDefinitionOf(def.name))) = PrintDef(def)

\* the definitions of file k without the dropped ones
Survivors(k) ==
  LET defs == input[k].definitions
      upTo[n \in 0..Len(defs)] ==
        IF n = 0 THEN <<>>
        ELSE IF Dropped(k, n) THEN upTo[n - 1] ELSE Append(upTo[n - 1], defs[n])
  IN upTo[Len(defs)]

(***************************************************************************)
(* C15.  First writer wins.  At every point of the run the registry holds  *)
(* exactly one entry for every fragment name defined in the files merged   *)
(* so far; the entry is the first definition of the name in merge order;   *)
(* a later definition with the same text is dropped from the definition    *)
(* list of its file, one with another text stays in the list and is not    *)
(* registered; files not merged yet are as they came.                      *)
(***************************************************************************)
C15_FirstWriterWins ==
  /\ \A k, l \in 1..Len(fragmentMap) :
       fragmentMap[k].name = fragmentMap[l].name => k = l
  /\ {fragmentMap[k].name : k \in 1..Len(fragmentMap)}
       = {n \in Spellings : DefinitionsOf(n) # {}}
  /\ \A k \in 1..Len(fragmentMap) :
       LET first == FirstDefinitionOf(fragmentMap[k].name)
       IN /\ fragmentMap[k].def = InputAt(first)
          /\ fragmentMap[k].text = PrintDef(InputAt(first))
          /\ fragmentOrigin[k] = input[first[1]].path
  /\ \A k \in 1..Len(input) :
       nodes[k].definitions =
         IF k <= fileIdx THEN Survivors(k) ELSE input[k].definitions

\* one later definition was dropped as identical and another, with another
\* text, was kept in its file without being registered
C15_Witness ==
  /\ \E k \in 1..fileIdx : Len(nodes[k].definitions) < Len(input[k].definitions)
  /\ \E k \in 1..fileIdx : \E i \in 1..Len(nodes[k].definitions) :
       LET def == nodes[k].definitions[i]
       IN /\ def.kind = "FragmentDefinition"
          /\ FragmentGet(fragmentMap, def.name).text # PrintDef(def)

\* the spread nodes of a definition that name no registered fragment
UnresolvedNodes(def) ==
  Len(SelectSeq(def.spreads, LAMBDA n : ~FragmentHas(fragmentMap, n)))

\* the unresolved spread nodes in an operation and in the registered fragments
\* of its closure (a sequence of distinct names)
UnresolvedNodesIn(operation, closure) ==
  LET sum[n \in 0..Len(closure)] ==
        IF n = 0 THEN UnresolvedNodes(operation)
        ELSE sum[n - 1] + UnresolvedNodes(FragmentGet(fragmentMap, closure[n]).def)
  IN sum[Len(closure)]

\* the same, for the operations resolved so far: those compiled and, when the
\* stack has just run empty, the one being handled
UnresolvedNodesSoFar ==
  LET closure(i) == IF i \in DOMAIN resolved THEN resolved[i] ELSE usedFragments
      counts(i) == i \in DOMAIN resolved \/ (pc = "assemble" /\ i = opIdx + 1)
      sum[n \in 0..Len(operationDefinitions)] ==
        IF n = 0 THEN 0
        ELSE sum[n - 1]
               + (IF counts(n)
                  THEN UnresolvedNodesIn(operationDefinitions[n], closure(n))
                  ELSE 0)
  IN sum[Len(operationDefinitions)]

(***************************************************************************)
(* C16.  Each unresolved spread yields exactly one undefined-fragment      *)
(* diagnostic per operation that reaches it: whenever the resolution of an *)
(* operation has just ended, and when the run has returned, the number of  *)
(* undefined-fragment diagnostics equals the number of unresolved spread   *)
(* nodes in the operations resolved so far and in the registered fragments *)
(* of their closures (so each resolution added exactly its own number).    *)
(***************************************************************************)
C16_OneDiagnosticPerSpread ==
  pc \in {"assemble", "operation", "returned", "done"} =>
    Len(SelectSeq(errors, LAMBDA e : e.id = "85908")) = UnresolvedNodesSoFar

(***************************************************************************)
(* C17.  An operation whose resolution reported an undefined fragment is   *)
(* skipped: no operation with an unresolved spread, in its body or in the  *)
(* registered fragments of its closure, is compiled or fills the slot of   *)
(* its file.                                                               *)
(***************************************************************************)
C17_UndefinedSkipsCompile ==
  /\ \A i \in DOMAIN resolved :
       UnresolvedNodesIn(operationDefinitions[i], resolved[i]) = 0
  /\ \A p \in DOMAIN compiledNodes :
       UnresolvedNodesIn(CompiledOperation(p), resolved[compiledFrom[p]]) = 0

(***************************************************************************)
(* C18.  Fragment resolution terminates: whenever an operation is being    *)
(* resolved its work stack eventually becomes empty, and Runner.write      *)
(* eventually returns, also when registered fragments spread each other    *)
(* cyclically.                                                             *)
(***************************************************************************)
C18_ResolutionTerminates ==
  /\ (pc = "visit") ~> (pc = "assemble" /\ stack = <<>>)
  /\ <>Returned

(***************************************************************************)
(* C19.  Every compiled query is filed under the file that defines its     *)
(* operation: for every entry of the compiled-query map the key equals the *)
(* path of the query and is the file whose document holds the operation    *)
(* that was compiled, whose name the query carries.                        *)
(***************************************************************************)
C19_FiledUnderDefiningFile ==
  \A p \in DOMAIN compiledNodes :
    /\ compiledNodes[p].path = p
    /\ compiledNodes[p].name = CompiledOperation(p).name
    /\ operationOrigin[compiledFrom[p]] = p

(***************************************************************************)
(* C20.  The fragment registry is frozen before resolution begins: no step *)
(* taken after the merge loop over the files has ended (global validation, *)
(* resolution and compilation of every operation, the return) adds,        *)
(* removes or replaces an entry of the registry.                           *)
(***************************************************************************)
C20_RegistryFrozen ==
  [][(pc \in {"validate", "operation", "visit", "assemble", "returned"})
       => (fragmentMap' = fragmentMap)]_vars

\* resolution is under way with a registry of several fragments, one of them
\* about to be looked up
C20_Witness ==
  /\ pc = "visit"
  /\ Len(fragmentMap) >= 2
  /\ \E n \in Range(stack[Len(stack)].spreads) : FragmentHas(fragmentMap, n)

====
